---------------------------- MODULE Spec2Model ----------------------------
(***************************************************************************)
(* PolicyPal backend (python-server/main.py): the customer store, the      *)
(* product query, the customer fetch and the chat session registry.        *)
(*                                                                         *)
(* Python strings are sequences of one-character strings, so that strip,   *)
(* lower, isdigit, int and len are computed rather than assumed.  An       *)
(* Optional[str] is a sequence of length at most one: <<>> is None and     *)
(* <<s>> is the string s.                                                  *)
(*                                                                         *)
(* The specifications share the variables: SpecStore (customer store and   *)
(* fetch), SpecChat (session registry and responder, one request at a      *)
(* time), SpecProducts (the product query), SpecValidate and SpecCheck     *)
(* (the checks on one form), SpecRespond (the responder on one message)    *)
(* and SpecLoop (chat requests in flight on the event loop, one statement  *)
(* at a time).  Whether the database can be reached is an input of every   *)
(* call.                                                                   *)
(***************************************************************************)
EXTENDS Integers, Sequences, FiniteSets, TLC

VARIABLES
    customers,   \* rows of the customers table, customer_id = position
    catalog,     \* rows of the insurance_products table, in insertion order
    sessions,    \* the module-level dict sessions: sessionId -> entry
    form,        \* the form data the client under observation submits
    submitted,   \* history: the request body each row of customers came from
    call,        \* the request most recently handled
    resp,        \* the response to that request
    loop         \* the event loop: the chat requests in flight and the dict
                 \* objects they and the registry refer to

vars == <<customers, catalog, sessions, form, submitted, call, resp, loop>>

-----------------------------------------------------------------------------
(* Bounds *)

MaxCustomers == 2
MaxTurns == 2
MaxProducts == 2
MaxInflight == 2

-----------------------------------------------------------------------------
(* Python values *)

None == <<>>
Some(v) == <<v>>

\* A request slot of the event loop with no request in it, and the event
\* loop with nothing in flight.
IdleRequest ==
    [op |-> "none", sessionId |-> "", message |-> <<>>, formData |-> None,
     pc |-> "idle", session |-> 0, response |-> <<>>]

IdleLoop ==
    [running |-> 0, requests |-> [rid \in 1..MaxInflight |-> IdleRequest],
     bound |-> <<>>, heap |-> <<>>]

\* Python truthiness of an Optional[str]: None and "" are falsy.
Truthy(o) == o # None /\ o[1] # <<>>

\* Python's `a or b` on Optional[str] operands.
Or(a, b) == IF Truthy(a) THEN a ELSE b

Whitespace == {" "}
AsciiDigits == {"0", "1", "2", "3", "4", "5", "6", "7", "8", "9"}
\* str.isdigit() also holds of digit characters that int() does not accept.
SuperscriptDigits == {"²"}

UpperToLower ==
    [c \in {"A", "B", "C", "D", "E", "F", "G", "H", "I", "J", "K", "L", "M",
            "N", "O", "P", "Q", "R", "S", "T", "U", "V", "W", "X", "Y", "Z"} |->
        CASE c = "A" -> "a" [] c = "B" -> "b" [] c = "C" -> "c" [] c = "D" -> "d"
          [] c = "E" -> "e" [] c = "F" -> "f" [] c = "G" -> "g" [] c = "H" -> "h"
          [] c = "I" -> "i" [] c = "J" -> "j" [] c = "K" -> "k" [] c = "L" -> "l"
          [] c = "M" -> "m" [] c = "N" -> "n" [] c = "O" -> "o" [] c = "P" -> "p"
          [] c = "Q" -> "q" [] c = "R" -> "r" [] c = "S" -> "s" [] c = "T" -> "t"
          [] c = "U" -> "u" [] c = "V" -> "v" [] c = "W" -> "w" [] c = "X" -> "x"
          [] c = "Y" -> "y" [] c = "Z" -> "z"]

\* str.lower()
Lower(s) ==
    [i \in 1..Len(s) |-> IF s[i] \in DOMAIN UpperToLower THEN UpperToLower[s[i]] ELSE s[i]]

RECURSIVE LStrip(_)
LStrip(s) == IF s # <<>> /\ Head(s) \in Whitespace THEN LStrip(Tail(s)) ELSE s

RECURSIVE RStrip(_)
RStrip(s) ==
    IF s # <<>> /\ s[Len(s)] \in Whitespace THEN RStrip(SubSeq(s, 1, Len(s) - 1)) ELSE s

\* str.strip()
Strip(s) == RStrip(LStrip(s))

\* str.isdigit()
IsDigit(s) == s # <<>> /\ \A i \in 1..Len(s) : s[i] \in AsciiDigits \cup SuperscriptDigits

DigitVal(c) ==
    CASE c = "0" -> 0 [] c = "1" -> 1 [] c = "2" -> 2 [] c = "3" -> 3 [] c = "4" -> 4
      [] c = "5" -> 5 [] c = "6" -> 6 [] c = "7" -> 7 [] c = "8" -> 8 [] c = "9" -> 9

RECURSIVE DecimalValue(_)
DecimalValue(s) ==
    IF s = <<>> THEN 0 ELSE 10 * DecimalValue(SubSeq(s, 1, Len(s) - 1)) + DigitVal(s[Len(s)])

\* int(s): surrounding whitespace and one sign are accepted; anything else
\* raises ValueError, which is None here.
ParseInt(s) ==
    LET t == Strip(s)
        signed == t # <<>> /\ Head(t) \in {"+", "-"}
        d == IF signed THEN Tail(t) ELSE t
    IN  IF d = <<>> \/ \E i \in 1..Len(d) : d[i] \notin AsciiDigits
        THEN None
        ELSE Some(IF signed /\ Head(t) = "-" THEN 0 - DecimalValue(d) ELSE DecimalValue(d))

\* `w in s` on strings
Contains(s, w) ==
    \E i \in 0..(Len(s) - Len(w)) : SubSeq(s, i + 1, i + Len(w)) = w

-----------------------------------------------------------------------------
(* String constants of the program *)

S_car == <<"c", "a", "r">>
S_auto == <<"a", "u", "t", "o">>
S_term == <<"t", "e", "r", "m">>
S_term_life == <<"t", "e", "r", "m", "_", "l", "i", "f", "e">>
S_health == <<"h", "e", "a", "l", "t", "h">>
S_savings == <<"s", "a", "v", "i", "n", "g", "s">>
S_home == <<"h", "o", "m", "e">>
S_Male == <<"M", "a", "l", "e">>
S_Female == <<"F", "e", "m", "a", "l", "e">>
S_male == <<"m", "a", "l", "e">>
S_female == <<"f", "e", "m", "a", "l", "e">>
S_non_binary == <<"n", "o", "n", "_", "b", "i", "n", "a", "r", "y">>
S_all == <<"a", "l", "l">>
S_website == <<"w", "e", "b", "s", "i", "t", "e">>

CanonicalTypes == {S_auto, S_health, S_term_life, S_savings, S_home}

\* dict.get(key, default)
Get(d, k, default) == IF k \in DOMAIN d THEN d[k] ELSE default

insurance_type_mapping ==
    (S_car :> S_auto) @@ (S_auto :> S_auto) @@ (S_term :> S_term_life) @@
    (S_term_life :> S_term_life) @@ (S_health :> S_health) @@
    (S_savings :> S_savings) @@ (S_home :> S_home)

-----------------------------------------------------------------------------
(* Exceptions and results *)

NoExc == [exc |-> "none", status_code |-> 0, detail |-> ""]
HTTPException(code, d) == [exc |-> "HTTPException", status_code |-> code, detail |-> d]
ValueError == [exc |-> "ValueError", status_code |-> 0, detail |-> "invalid literal for int()"]

\* str(e) of a caught exception
Str(e) == e.detail

-----------------------------------------------------------------------------
(* CustomerData, the validator and the customer store *)

OptionalFields ==
    {"vehicleNumber", "vehicleModel", "vehicleYear", "age", "gender", "medicalHistory",
     "lifeAge", "lifeGender", "coverageAmount", "relationship", "savingsAge",
     "savingsGender", "monthlyInvestment", "investmentGoal", "homeAge", "homeGender",
     "currentProvider"}

RequiredFields == {"name", "email", "phone", "zipCode", "insuranceType"}

\* DatabaseService.validate_customer_data: the exception it raises, or NoExc.
validate_customer_data(customer_data) ==
    LET db_insurance_type ==
            Get(insurance_type_mapping, customer_data.insuranceType, customer_data.insuranceType)
        age_field == Or(Or(customer_data.lifeAge, customer_data.savingsAge), customer_data.age)
        gender_field ==
            Or(Or(customer_data.lifeGender, customer_data.savingsGender), customer_data.gender)
        Blank(o) == ~Truthy(o) \/ Strip(o[1]) = <<>>
    IN
    IF Strip(customer_data.name) = <<>> THEN HTTPException(400, "Name is required")
    ELSE IF Strip(customer_data.email) = <<>> THEN HTTPException(400, "Email is required")
    ELSE IF Strip(customer_data.phone) = <<>> THEN HTTPException(400, "Phone is required")
    ELSE IF Strip(customer_data.zipCode) = <<>> THEN HTTPException(400, "ZIP code is required")
    ELSE IF customer_data.insuranceType = <<>>
        THEN HTTPException(400, "Insurance type is required")
    ELSE IF Len(customer_data.phone) < 10
        THEN HTTPException(400, "Phone number must be at least 10 digits")
    ELSE IF db_insurance_type = S_auto THEN
        IF Blank(customer_data.vehicleNumber)
            THEN HTTPException(400, "Vehicle number is required for auto insurance")
        ELSE IF Blank(customer_data.vehicleModel)
            THEN HTTPException(400, "Vehicle model is required for auto insurance")
        ELSE IF ~Truthy(customer_data.vehicleYear)
            THEN HTTPException(400, "Vehicle year is required for auto insurance")
        ELSE NoExc
    ELSE IF db_insurance_type \in {S_health, S_term_life, S_savings, S_home} THEN
        IF ~Truthy(age_field) \/ ~IsDigit(age_field[1])
            THEN HTTPException(400, "Valid age between 18 and 80 is required")
        ELSE IF ParseInt(age_field[1]) = None THEN ValueError
        ELSE IF ParseInt(age_field[1])[1] < 18 \/ ParseInt(age_field[1])[1] > 80
            THEN HTTPException(400, "Valid age between 18 and 80 is required")
        ELSE IF ~Truthy(gender_field) THEN HTTPException(400, "Gender is required")
        ELSE IF db_insurance_type = S_term_life /\ Blank(customer_data.coverageAmount)
            THEN HTTPException(400, "Coverage amount is required for term life insurance")
        ELSE IF db_insurance_type = S_term_life /\ ~Truthy(customer_data.relationship)
            THEN HTTPException(400, "Relationship is required for term life insurance")
        ELSE IF db_insurance_type = S_savings /\ Blank(customer_data.monthlyInvestment)
            THEN HTTPException(400, "Monthly investment is required for savings plans")
        ELSE IF db_insurance_type = S_savings /\ Blank(customer_data.investmentGoal)
            THEN HTTPException(400, "Investment goal is required for savings plans")
        ELSE NoExc
    ELSE NoExc

\* The gender_mapping of store_customer, with its .lower() default.
store_gender_mapping ==
    (S_Male :> S_male) @@ (S_Female :> S_female) @@ (S_male :> S_male) @@
    (S_female :> S_female)

\* gender_value of store_customer, for gender_raw
gender_value(gender_raw) ==
    IF Truthy(gender_raw)
    THEN Some(Get(store_gender_mapping, gender_raw[1], Lower(gender_raw[1])))
    ELSE None

StripOrNone_unstripped(o) == IF Truthy(o) THEN o ELSE None

\* `x.strip() if x else None`
StripOrNone(o) == IF Truthy(o) THEN Some(Strip(o[1])) ELSE None

\* `int(x) if x else None`; the second component tells whether int() raised.
IntOrNone(o) ==
    IF Truthy(o)
    THEN [value |-> ParseInt(o[1]), raised |-> ParseInt(o[1]) = None]
    ELSE [value |-> None, raised |-> FALSE]

Columns ==
    {"name", "email", "phone", "zip_code", "insurance_type", "current_provider",
     "lead_source", "vehicle_number", "vehicle_model", "vehicle_year", "age", "gender",
     "medical_history", "coverage_amount", "relationship", "monthly_investment",
     "investment_goal"}

\* formatted_data of store_customer.  A column whose value is None is left
\* out of the INSERT and so is NULL (None) in the row.
formatted_data(customer_data) ==
    LET db_insurance_type ==
            Get(insurance_type_mapping, customer_data.insuranceType, customer_data.insuranceType)
        common ==
            [name |-> Some(Strip(customer_data.name)),
             email |-> Some(Strip(Lower(customer_data.email))),
             phone |-> Some(Strip(customer_data.phone)),
             zip_code |-> Some(Strip(customer_data.zipCode)),
             insurance_type |-> Some(db_insurance_type),
             current_provider |-> StripOrNone(customer_data.currentProvider),
             lead_source |-> Some(S_website)]
        typed ==
            IF db_insurance_type = S_auto THEN
                [vehicle_number |-> StripOrNone(customer_data.vehicleNumber),
                 vehicle_model |-> StripOrNone(customer_data.vehicleModel),
                 vehicle_year |-> IntOrNone(customer_data.vehicleYear).value]
            ELSE IF db_insurance_type = S_health THEN
                [age |-> IntOrNone(customer_data.age).value,
                 gender |-> gender_value(customer_data.gender),
                 medical_history |-> StripOrNone(customer_data.medicalHistory)]
            ELSE IF db_insurance_type = S_term_life THEN
                [age |-> IntOrNone(Or(customer_data.lifeAge, customer_data.age)).value,
                 gender |-> gender_value(Or(customer_data.lifeGender, customer_data.gender)),
                 coverage_amount |-> StripOrNone(customer_data.coverageAmount),
                 relationship |-> customer_data.relationship]
            ELSE IF db_insurance_type = S_savings THEN
                [age |-> IntOrNone(Or(customer_data.savingsAge, customer_data.age)).value,
                 gender |-> gender_value(Or(customer_data.savingsGender, customer_data.gender)),
                 monthly_investment |-> StripOrNone(customer_data.monthlyInvestment),
                 investment_goal |-> StripOrNone(customer_data.investmentGoal)]
            ELSE IF db_insurance_type = S_home THEN
                [age |-> IntOrNone(Or(customer_data.homeAge, customer_data.age)).value,
                 gender |-> gender_value(Or(customer_data.homeGender, customer_data.gender))]
            ELSE [lead_source |-> Some(S_website)]
    IN  typed @@ common @@ [c \in Columns |-> None]

\* Whether building formatted_data raises ValueError (an int() that fails).
format_raises(customer_data) ==
    LET db_insurance_type ==
            Get(insurance_type_mapping, customer_data.insuranceType, customer_data.insuranceType)
    IN  CASE db_insurance_type = S_auto -> IntOrNone(customer_data.vehicleYear).raised
          [] db_insurance_type = S_health -> IntOrNone(customer_data.age).raised
          [] db_insurance_type = S_term_life ->
                IntOrNone(Or(customer_data.lifeAge, customer_data.age)).raised
          [] db_insurance_type = S_savings ->
                IntOrNone(Or(customer_data.savingsAge, customer_data.age)).raised
          [] db_insurance_type = S_home ->
                IntOrNone(Or(customer_data.homeAge, customer_data.age)).raised
          [] OTHER -> FALSE

\* DatabaseService.get_connection: the exception raised when the database
\* cannot be reached.
get_connection(dbUp) ==
    IF dbUp THEN NoExc ELSE HTTPException(500, "Database connection failed")

DatabaseService_store_customer_unvalidated(customer_data, dbUp, table) ==
    LET c == get_connection(dbUp)
        customer_id == Len(table) + 1
        row == formatted_data(customer_data) @@ [customer_id |-> customer_id]
    IN  IF c.exc # "none"
            THEN [raised |-> HTTPException(500, Str(c)), inserted |-> FALSE,
                  table |-> table, customer_id |-> 0]
        ELSE IF format_raises(customer_data)
            THEN [raised |-> HTTPException(500, Str(ValueError)), inserted |-> FALSE,
                  table |-> table, customer_id |-> 0]
        ELSE [raised |-> NoExc, inserted |-> TRUE,
              table |-> Append(table, row), customer_id |-> customer_id]

\* DatabaseService.store_customer: what it raises or returns, and the row it
\* inserts.  Every exception of the body, the validator's HTTPException
\* included, is caught by `except Exception` and raised again with status 500.
DatabaseService_store_customer(customer_data, dbUp, table) ==
    LET v == validate_customer_data(customer_data)
        c == get_connection(dbUp)
        customer_id == Len(table) + 1
        row == formatted_data(customer_data) @@ [customer_id |-> customer_id]
    IN  IF v.exc # "none"
            THEN [raised |-> HTTPException(500, Str(v)), inserted |-> FALSE,
                  table |-> table, customer_id |-> 0]
        ELSE IF c.exc # "none"
            THEN [raised |-> HTTPException(500, Str(c)), inserted |-> FALSE,
                  table |-> table, customer_id |-> 0]
        ELSE IF format_raises(customer_data)
            THEN [raised |-> HTTPException(500, Str(ValueError)), inserted |-> FALSE,
                  table |-> table, customer_id |-> 0]
        ELSE [raised |-> NoExc, inserted |-> TRUE,
              table |-> Append(table, row), customer_id |-> customer_id]

\* DatabaseService.get_customer: the row as a dict, or None; a failure to
\* connect is caught and None is returned.
DatabaseService_get_customer(customer_id, dbUp, table) ==
    IF get_connection(dbUp).exc # "none" THEN None
    ELSE IF customer_id \in 1..Len(table) THEN Some(table[customer_id])
    ELSE None

-----------------------------------------------------------------------------
(* Request bodies *)

AllFields == RequiredFields \cup OptionalFields

\* EmailStr: one "@" with a non-empty local part and a dotted domain, no
\* whitespace.
EmailStr(s) ==
    /\ Cardinality({i \in 1..Len(s) : s[i] = "@"}) = 1
    /\ \A i \in 1..Len(s) : s[i] \notin Whitespace
    /\ s[1] # "@" /\ s[Len(s)] \notin {"@", "."}
    /\ \E i, j \in 1..Len(s) : s[i] = "@" /\ s[j] = "." /\ i + 1 < j

CustomerData_accepts_any_email(raw) == \A f \in RequiredFields : raw[f] # None

\* Whether the request model CustomerData accepts a JSON object: the five
\* required strings are present and email is an address.
CustomerData_accepts(raw) ==
    /\ \A f \in RequiredFields : raw[f] # None
    /\ EmailStr(raw.email[1])

\* The CustomerData instance built from an accepted JSON object: required
\* fields are strings, the others Optional[str].
CustomerData(raw) ==
    [f \in AllFields |-> IF f \in RequiredFields THEN raw[f][1] ELSE raw[f]]

Response(status, detail, body) == [status_code |-> status, detail |-> detail, body |-> body]

\* POST /api/database/customer
store_customer(payload, dbUp, table) ==
    IF payload = None
        THEN [resp |-> Response(400, "Customer data is required", None), table |-> table]
    ELSE IF ~CustomerData_accepts(payload[1])
        THEN [resp |-> Response(422, "validation error", None), table |-> table]
    ELSE
        LET r == DatabaseService_store_customer(CustomerData(payload[1]), dbUp, table)
        IN  IF r.raised.exc # "none"
            THEN [resp |-> Response(r.raised.status_code, r.raised.detail, None),
                  table |-> r.table]
            ELSE [resp |-> Response(200, "", [success |-> TRUE, customerId |-> r.customer_id]),
                  table |-> r.table]

\* GET /api/database/customer/{customer_id}
get_customer(customer_id, dbUp, table) ==
    Response(200, "",
             [success |-> TRUE, data |-> DatabaseService_get_customer(customer_id, dbUp, table)])

-----------------------------------------------------------------------------
(* Inputs *)

T_Jo == <<"J", "o">>
T_padded == <<" ", "A", "b", " ">>
T_space == <<" ">>
T_email == <<"j", "@", "x", ".", "c", "o">>
T_Email == <<"J", "@", "x", ".", "c", "o">>
T_notEmail == <<"j", "x">>
T_phone == <<"9", "9", "9", "9", "9", "9", "9", "9", "9", "9">>
T_phoneShort == <<"9", "9", "9">>
T_phonePadded == <<" ", "9", "9", "9", "9", "9", "9", "9", "9", "9", "9">>
T_phoneBlank == <<" ", " ", " ", " ", " ", " ", " ", " ", " ", " ">>
T_zip == <<"1", "2", "3">>
T_plate == <<"A", "B", "1">>
T_model == <<"C", "i", "v">>
T_year == <<"2", "0", "2", "0">>
T_age == <<"3", "0">>
T_sum == <<"5", "0">>
T_kid == <<"k", "i", "d">>
T_goal == <<"e", "d", "u">>
T_pet == <<"p", "e", "t">>
T_Auto == <<"A", "u", "t", "o">>
T_Other == <<"O", "t", "h", "e", "r">>

TextValues == {None, Some(<<>>), Some(T_space), Some(T_padded)}
NumberValues ==
    {None, Some(<<>>), Some(T_space), Some(<<"1", "7">>), Some(<<"8", "1">>),
     Some(<<"4", "5">>), Some(<<"4", "x">>), Some(<<"²", "²">>), Some(<<" ", "4", "5">>)}
GenderValues == {None, Some(<<>>), Some(T_space), Some(S_Male), Some(T_Other)}
EmailValues == {None, Some(<<>>), Some(T_space), Some(T_Email), Some(T_notEmail)}
PhoneValues ==
    {None, Some(<<>>), Some(T_space), Some(T_phoneShort), Some(T_phoneBlank),
     Some(T_phonePadded)}
TypeValues == {None, Some(<<>>)}

FieldValues(f) ==
    CASE f \in {"vehicleYear", "age", "lifeAge", "savingsAge", "homeAge"} -> NumberValues
      [] f \in {"gender", "lifeGender", "savingsGender", "homeGender"} -> GenderValues
      [] f = "email" -> EmailValues
      [] f = "phone" -> PhoneValues
      [] f = "insuranceType" -> TypeValues
      [] OTHER -> TextValues

TypeTokens == DOMAIN insurance_type_mapping \cup {T_pet, T_Auto}

\* The fields a category requires beyond name, email, phone and zipCode.
CategoryFields(canonical) ==
    CASE canonical = S_auto -> {"vehicleNumber", "vehicleModel", "vehicleYear"}
      [] canonical \in {S_health, S_home} -> {"age", "gender"}
      [] canonical = S_term_life -> {"age", "gender", "coverageAmount", "relationship"}
      [] canonical = S_savings -> {"age", "gender", "monthlyInvestment", "investmentGoal"}
      [] OTHER -> {}

SampleValue(f) ==
    CASE f = "name" -> T_Jo [] f = "email" -> T_email [] f = "phone" -> T_phone
      [] f = "zipCode" -> T_zip [] f = "vehicleNumber" -> T_plate
      [] f = "vehicleModel" -> T_model [] f = "vehicleYear" -> T_year
      [] f = "age" -> T_age [] f = "gender" -> S_female
      [] f = "coverageAmount" -> T_sum [] f = "relationship" -> T_kid
      [] f = "monthlyInvestment" -> T_sum [] f = "investmentGoal" -> T_goal
      [] OTHER -> T_padded

\* A minimal well-formed JSON object for a type token: the four contact
\* fields and exactly the fields its category requires.
Minimal(token) ==
    [f \in AllFields |->
        IF f = "insuranceType" THEN Some(token)
        ELSE IF f \in {"name", "email", "phone", "zipCode"}
                 \cup CategoryFields(Get(insurance_type_mapping, token, token))
            THEN Some(SampleValue(f))
        ELSE None]

\* The forms submitted: a minimal well-formed one, or one with a single field
\* replaced.
Forms ==
    {Minimal(t) : t \in TypeTokens} \cup
    UNION {{[Minimal(t) EXCEPT ![f] = v] : v \in FieldValues(f)} :
           t \in TypeTokens, f \in AllFields}

\* Forms of other clients, stored alongside.
OtherForms == {[Minimal(S_car) EXCEPT !.name = Some(T_padded)]}

CustomerIds == 0..(MaxCustomers + 1)

-----------------------------------------------------------------------------
(* The customer store and the customer fetch *)

InitStore ==
    /\ customers = <<>>
    /\ loop = IdleLoop
    /\ catalog = <<>>
    /\ sessions = <<>>
    /\ form \in Forms
    /\ submitted = <<>>
    /\ call = [op |-> "none"]
    /\ resp = Response(0, "", None)

StoreCustomer(payload, dbUp) ==
    /\ Len(customers) < MaxCustomers
    /\ LET r == store_customer(payload, dbUp, customers)
       IN  /\ customers' = r.table
           /\ submitted' = IF r.table # customers THEN Append(submitted, payload[1])
                                                  ELSE submitted
           /\ resp' = r.resp
    /\ call' = [op |-> "store_customer", payload |-> payload, dbUp |-> dbUp]
    /\ UNCHANGED <<catalog, sessions, form, loop>>

GetCustomer(customer_id, dbUp) ==
    /\ resp' = get_customer(customer_id, dbUp, customers)
    /\ call' = [op |-> "get_customer", customer_id |-> customer_id, dbUp |-> dbUp]
    /\ UNCHANGED <<customers, catalog, sessions, form, submitted, loop>>

NextStore ==
    \/ \E payload \in {None, Some(form)} \cup {Some(o) : o \in OtherForms}, dbUp \in BOOLEAN :
            StoreCustomer(payload, dbUp)
    \/ \E customer_id \in CustomerIds, dbUp \in BOOLEAN : GetCustomer(customer_id, dbUp)

SpecStore == InitStore /\ [][NextStore]_vars

\* The last request was a customer-store call whose body the request model
\* accepted, so that it reached DatabaseService.store_customer.
StoreCalled ==
    /\ call.op = "store_customer"
    /\ call.payload # None
    /\ CustomerData_accepts(call.payload[1])

StoreArg == CustomerData(call.payload[1])

\* C1: a record that fails a validation rule gets a 400-class failure that
\* carries the reason of the violated rule, never a 500-class one.
C1_ValidationFailureIs400 ==
    (StoreCalled /\ validate_customer_data(StoreArg).exc = "HTTPException")
        => /\ resp.status_code \in 400..499
           /\ resp.detail = validate_customer_data(StoreArg).detail

\* C4: a store call for a record that validate_customer_data rejects (by
\* any exception) inserts no row.
C4_InsertOnlyIfValid ==
    [][(call'.op = "store_customer" /\ call'.payload # None
        /\ CustomerData_accepts(call'.payload[1])
        /\ validate_customer_data(CustomerData(call'.payload[1])).exc # "none")
            => customers' = customers]_vars

\* C4 witness: with a row already stored and the database reachable, a store
\* call for a record the validator rejects has been answered.
C4_Witness ==
    /\ StoreCalled /\ call.dbUp
    /\ validate_customer_data(StoreArg).exc # "none"
    /\ Len(customers) = 1
    /\ resp.status_code = 500

\* C5: every stored row has insurance_type among the five canonical types,
\* and a store call whose insuranceType is outside the alias table is
\* answered with a 400-class failure.
C5_ClosedTypeSet ==
    /\ \A i \in 1..Len(customers) : customers[i].insurance_type[1] \in CanonicalTypes
    /\ (StoreCalled /\ call.dbUp /\ StoreArg.insuranceType # <<>>
            /\ StoreArg.insuranceType \notin DOMAIN insurance_type_mapping)
            => resp.status_code \in 400..499

\* C8: fetching an id that no stored row has yields 404.
C8_UnknownCustomerIs404 ==
    (call.op = "get_customer" /\ call.dbUp /\ call.customer_id \notin 1..Len(customers))
        => resp.status_code = 404

\* The last request was a customer fetch that returned a row.
Fetched ==
    /\ call.op = "get_customer"
    /\ resp.status_code = 200
    /\ resp.body.data # None

FetchedRow == resp.body.data[1]
FetchedInput == CustomerData(submitted[call.customer_id])

\* A supplied numeric field reads back as the number it denotes.
SameNumber(supplied, column) ==
    supplied # None => column = (IF Truthy(supplied) THEN ParseInt(supplied[1]) ELSE None)

\* A supplied text field reads back unchanged.
SameText(supplied, column) == supplied # None => column = supplied

\* C9 as stated: the row fetched by a returned customerId equals the record
\* that was stored on every field the caller supplied.
C9_RoundTripEqual ==
    Fetched =>
        /\ FetchedRow.name = Some(FetchedInput.name)
        /\ FetchedRow.email = Some(FetchedInput.email)
        /\ FetchedRow.phone = Some(FetchedInput.phone)
        /\ FetchedRow.zip_code = Some(FetchedInput.zipCode)
        /\ FetchedRow.insurance_type = Some(FetchedInput.insuranceType)
        /\ SameText(FetchedInput.currentProvider, FetchedRow.current_provider)
        /\ SameText(FetchedInput.medicalHistory, FetchedRow.medical_history)
        /\ SameNumber(FetchedInput.age, FetchedRow.age)
        /\ SameText(FetchedInput.gender, FetchedRow.gender)
        /\ SameText(FetchedInput.vehicleNumber, FetchedRow.vehicle_number)
        /\ SameText(FetchedInput.vehicleModel, FetchedRow.vehicle_model)
        /\ SameNumber(FetchedInput.vehicleYear, FetchedRow.vehicle_year)
        /\ SameText(FetchedInput.coverageAmount, FetchedRow.coverage_amount)
        /\ SameText(FetchedInput.relationship, FetchedRow.relationship)
        /\ SameText(FetchedInput.monthlyInvestment, FetchedRow.monthly_investment)
        /\ SameText(FetchedInput.investmentGoal, FetchedRow.investment_goal)

\* The normal form a supplied value is stored in.
Trimmed(o) == IF o = None \/ o[1] = <<>> THEN None ELSE Some(Strip(o[1]))
LowerCased(o) == IF o = None \/ o[1] = <<>> THEN None ELSE Some(Lower(o[1]))
Number(o) == IF o = None \/ o[1] = <<>> THEN None ELSE ParseInt(o[1])
Preferred(own, shared) == IF own # None /\ own[1] # <<>> THEN own ELSE shared

\* The age and gender fields a resolved type reads.
AgeOf(cd, type) ==
    CASE type = S_health -> cd.age
      [] type = S_term_life -> Preferred(cd.lifeAge, cd.age)
      [] type = S_savings -> Preferred(cd.savingsAge, cd.age)
      [] type = S_home -> Preferred(cd.homeAge, cd.age)
      [] OTHER -> None

GenderOf(cd, type) ==
    CASE type = S_health -> cd.gender
      [] type = S_term_life -> Preferred(cd.lifeGender, cd.gender)
      [] type = S_savings -> Preferred(cd.savingsGender, cd.gender)
      [] type = S_home -> Preferred(cd.homeGender, cd.gender)
      [] OTHER -> None

Resolved(token) ==
    CASE token = S_car -> S_auto [] token = S_term -> S_term_life [] OTHER -> token

\* C9 as amended: the row fetched by a returned customerId is the stored
\* record in normal form.  Contact fields and currentProvider are trimmed and
\* email is lower-cased; insurance_type is the resolved type; only the
\* fields of the resolved type are kept (trimmed text, integer vehicleYear
\* and age, lower-cased gender, with the type's own age and gender fields
\* preferred); every other column is null.
C9_RoundTripNormalised ==
    Fetched =>
        LET cd == FetchedInput
            row == FetchedRow
            type == Resolved(cd.insuranceType)
            Only(types, value) == IF type \in types THEN value ELSE None
        IN  /\ row.customer_id = call.customer_id
            /\ row.name = Some(Strip(cd.name))
            /\ row.email = Some(Lower(Strip(cd.email)))
            /\ row.phone = Some(Strip(cd.phone))
            /\ row.zip_code = Some(Strip(cd.zipCode))
            /\ row.insurance_type = Some(type)
            /\ row.current_provider = Trimmed(cd.currentProvider)
            /\ row.vehicle_number = Only({S_auto}, Trimmed(cd.vehicleNumber))
            /\ row.vehicle_model = Only({S_auto}, Trimmed(cd.vehicleModel))
            /\ row.vehicle_year = Only({S_auto}, Number(cd.vehicleYear))
            /\ row.age = Number(AgeOf(cd, type))
            /\ row.gender = LowerCased(GenderOf(cd, type))
            /\ row.medical_history = Only({S_health}, Trimmed(cd.medicalHistory))
            /\ row.coverage_amount = Only({S_term_life}, Trimmed(cd.coverageAmount))
            /\ row.relationship = Only({S_term_life}, cd.relationship)
            /\ row.monthly_investment = Only({S_savings}, Trimmed(cd.monthlyInvestment))
            /\ row.investment_goal = Only({S_savings}, Trimmed(cd.investmentGoal))

\* C9 witness: a fetch has returned a row whose stored name differs from
\* the name that was supplied.
C9_Witness ==
    /\ Fetched
    /\ FetchedRow.name # Some(FetchedInput.name)
    /\ FetchedRow.insurance_type # Some(FetchedInput.insuranceType)

-----------------------------------------------------------------------------
(* The conversation responder *)

K_quote == <<"q", "u", "o", "t", "e">>
K_price == <<"p", "r", "i", "c", "e">>
K_cost == <<"c", "o", "s", "t">>
K_rate == <<"r", "a", "t", "e">>
K_coverage == <<"c", "o", "v", "e", "r", "a", "g", "e">>
K_protection == <<"p", "r", "o", "t", "e", "c", "t", "i", "o", "n">>
K_what == <<"w", "h", "a", "t">>
K_benefits == <<"b", "e", "n", "e", "f", "i", "t", "s">>
K_amount == <<"a", "m", "o", "u", "n", "t">>
K_how_much == <<"h", "o", "w", " ", "m", "u", "c", "h">>
K_returns == <<"r", "e", "t", "u", "r", "n", "s">>
K_growth == <<"g", "r", "o", "w", "t", "h">>
K_interest == <<"i", "n", "t", "e", "r", "e", "s", "t">>
K_flexible == <<"f", "l", "e", "x", "i", "b", "l", "e">>
K_change == <<"c", "h", "a", "n", "g", "e">>
K_increase == <<"i", "n", "c", "r", "e", "a", "s", "e">>
K_thank == <<"t", "h", "a", "n", "k">>
K_thanks == <<"t", "h", "a", "n", "k", "s">>
K_appreciate == <<"a", "p", "p", "r", "e", "c", "i", "a", "t", "e">>
K_help == <<"h", "e", "l", "p">>
K_confused == <<"c", "o", "n", "f", "u", "s", "e", "d">>
K_understand == <<"u", "n", "d", "e", "r", "s", "t", "a", "n", "d">>

AnyWordIn_whole_message(words, lower_message) == lower_message \in words

\* any(word in lower_message for word in words)
AnyWordIn(words, lower_message) == \E word \in words : Contains(lower_message, word)

\* A reply: the template chosen and the values its f-string interpolates.
Reply(template, name, vehicleModel, insurance_type) ==
    [template |-> template, name |-> name, vehicleModel |-> vehicleModel,
     insurance_type |-> insurance_type]

generate_simple_response_uses_age(message, context) ==
    LET lower_message == Lower(message)
        insurance_type ==
            Get(insurance_type_mapping, context.insuranceType, context.insuranceType)
        name == context.name
        quote == AnyWordIn({K_quote, K_price, K_cost, K_rate}, lower_message)
        general ==
            IF AnyWordIn({K_thank, K_thanks, K_appreciate}, lower_message)
                THEN Reply("thanks", name, None, <<>>)
            ELSE IF AnyWordIn({K_help, K_confused, K_understand}, lower_message)
                THEN Reply("help", <<>>, None, <<>>)
            ELSE Reply("default", name, None, insurance_type)
    IN  IF insurance_type = S_auto THEN
            IF quote THEN Reply("auto_quote", name, context.vehicleModel, <<>>)
            ELSE IF AnyWordIn({K_coverage, K_protection, K_what}, lower_message)
                THEN Reply("auto_coverage", <<>>, None, <<>>)
            ELSE general
        ELSE IF insurance_type = S_health THEN
            IF quote THEN Reply("health_quote", name, context.age, <<>>)
            ELSE IF AnyWordIn({K_coverage, K_benefits, K_what}, lower_message)
                THEN Reply("health_coverage", <<>>, None, <<>>)
            ELSE general
        ELSE IF insurance_type = S_term_life THEN
            IF quote THEN Reply("term_life_quote", name, None, <<>>)
            ELSE IF AnyWordIn({K_coverage, K_amount, K_how_much}, lower_message)
                THEN Reply("term_life_coverage", <<>>, None, <<>>)
            ELSE general
        ELSE IF insurance_type = S_savings THEN
            IF AnyWordIn({K_returns, K_growth, K_interest}, lower_message)
                THEN Reply("savings_returns", name, None, <<>>)
            ELSE IF AnyWordIn({K_flexible, K_change, K_increase}, lower_message)
                THEN Reply("savings_flexible", <<>>, None, <<>>)
            ELSE general
        ELSE IF insurance_type = S_home THEN
            IF quote THEN Reply("home_quote", name, None, <<>>)
            ELSE IF AnyWordIn({K_coverage, K_protection, K_what}, lower_message)
                THEN Reply("home_coverage", <<>>, None, <<>>)
            ELSE general
        ELSE general

\* generate_simple_response(message, context)
generate_simple_response(message, context) ==
    LET lower_message == Lower(message)
        insurance_type ==
            Get(insurance_type_mapping, context.insuranceType, context.insuranceType)
        name == context.name
        quote == AnyWordIn({K_quote, K_price, K_cost, K_rate}, lower_message)
        general ==
            IF AnyWordIn({K_thank, K_thanks, K_appreciate}, lower_message)
                THEN Reply("thanks", name, None, <<>>)
            ELSE IF AnyWordIn({K_help, K_confused, K_understand}, lower_message)
                THEN Reply("help", <<>>, None, <<>>)
            ELSE Reply("default", name, None, insurance_type)
    IN  IF insurance_type = S_auto THEN
            IF quote THEN Reply("auto_quote", name, context.vehicleModel, <<>>)
            ELSE IF AnyWordIn({K_coverage, K_protection, K_what}, lower_message)
                THEN Reply("auto_coverage", <<>>, None, <<>>)
            ELSE general
        ELSE IF insurance_type = S_health THEN
            IF quote THEN Reply("health_quote", name, None, <<>>)
            ELSE IF AnyWordIn({K_coverage, K_benefits, K_what}, lower_message)
                THEN Reply("health_coverage", <<>>, None, <<>>)
            ELSE general
        ELSE IF insurance_type = S_term_life THEN
            IF quote THEN Reply("term_life_quote", name, None, <<>>)
            ELSE IF AnyWordIn({K_coverage, K_amount, K_how_much}, lower_message)
                THEN Reply("term_life_coverage", <<>>, None, <<>>)
            ELSE general
        ELSE IF insurance_type = S_savings THEN
            IF AnyWordIn({K_returns, K_growth, K_interest}, lower_message)
                THEN Reply("savings_returns", name, None, <<>>)
            ELSE IF AnyWordIn({K_flexible, K_change, K_increase}, lower_message)
                THEN Reply("savings_flexible", <<>>, None, <<>>)
            ELSE general
        ELSE IF insurance_type = S_home THEN
            IF quote THEN Reply("home_quote", name, None, <<>>)
            ELSE IF AnyWordIn({K_coverage, K_protection, K_what}, lower_message)
                THEN Reply("home_coverage", <<>>, None, <<>>)
            ELSE general
        ELSE general

-----------------------------------------------------------------------------
(* The session registry *)

\* The greeting of initialize_chat: initial_messages is keyed by the raw
\* insuranceType of the form.
initial_message(formData) ==
    [template |-> IF formData.insuranceType \in CanonicalTypes
                  THEN formData.insuranceType ELSE <<>>,
     name |-> formData.name,
     location |-> formData.zipCode,
     vehicleModel |-> IF formData.insuranceType = S_auto THEN formData.vehicleModel ELSE None]

initialize_chat_keeps_history(sessionId, body, registry) ==
    IF body = None \/ ~CustomerData_accepts(body[1])
        THEN [resp |-> Response(422, "validation error", None), sessions |-> registry]
    ELSE
        LET formData == CustomerData(body[1])
            entry == [formData |-> formData,
                      history |-> IF sessionId \in DOMAIN registry
                                  THEN registry[sessionId].history ELSE <<>>,
                      context |-> formData]
        IN  [resp |-> Response(200, "",
                               [success |-> TRUE, message |-> initial_message(formData),
                                sessionId |-> sessionId]),
             sessions |-> (sessionId :> entry) @@ registry]

\* POST /api/chat/initialize: the response and the registry afterwards.
initialize_chat(sessionId, body, registry) ==
    IF body = None \/ ~CustomerData_accepts(body[1])
        THEN [resp |-> Response(422, "validation error", None), sessions |-> registry]
    ELSE
        LET formData == CustomerData(body[1])
            entry == [formData |-> formData, history |-> <<>>, context |-> formData]
        IN  [resp |-> Response(200, "",
                               [success |-> TRUE, message |-> initial_message(formData),
                                sessionId |-> sessionId]),
             sessions |-> (sessionId :> entry) @@ registry]

handle_chat_message_user_entry_only(sessionId, message, body, registry) ==
    IF body = None \/ ~CustomerData_accepts(body[1])
        THEN [resp |-> Response(422, "validation error", None), sessions |-> registry]
    ELSE IF sessionId \notin DOMAIN registry
        THEN [resp |-> Response(404, "Session not found", None), sessions |-> registry]
    ELSE
        LET session == registry[sessionId]
            response == generate_simple_response(message, session.context)
            history == Append(session.history, [role |-> "user", content |-> message])
        IN  [resp |-> Response(200, "", [success |-> TRUE, message |-> response]),
             sessions |-> [registry EXCEPT ![sessionId].history = history]]

handle_chat_message_creates_session(sessionId, message, body, registry) ==
    IF body = None \/ ~CustomerData_accepts(body[1])
        THEN [resp |-> Response(422, "validation error", None), sessions |-> registry]
    ELSE IF sessionId \notin DOMAIN registry
        THEN [resp |-> Response(404, "Session not found", None),
              sessions |-> (sessionId :> [formData |-> CustomerData(body[1]), history |-> <<>>,
                                          context |-> CustomerData(body[1])]) @@ registry]
    ELSE
        LET session == registry[sessionId]
            response == generate_simple_response(message, session.context)
            history ==
                session.history \o <<[role |-> "user", content |-> message],
                                     [role |-> "assistant", content |-> response]>>
        IN  [resp |-> Response(200, "", [success |-> TRUE, message |-> response]),
             sessions |-> [registry EXCEPT ![sessionId].history = history]]

\* POST /api/chat/message: the response and the registry afterwards.  The
\* request model ChatMessage requires formData; the handler never reads it.
handle_chat_message(sessionId, message, body, registry) ==
    IF body = None \/ ~CustomerData_accepts(body[1])
        THEN [resp |-> Response(422, "validation error", None), sessions |-> registry]
    ELSE IF sessionId \notin DOMAIN registry
        THEN [resp |-> Response(404, "Session not found", None), sessions |-> registry]
    ELSE
        LET session == registry[sessionId]
            response == generate_simple_response(message, session.context)
            history ==
                session.history \o <<[role |-> "user", content |-> message],
                                     [role |-> "assistant", content |-> response]>>
        IN  [resp |-> Response(200, "", [success |-> TRUE, message |-> response]),
             sessions |-> [registry EXCEPT ![sessionId].history = history]]

SessionIds == {"s1", "s2"}

M_Price == <<"P", "r", "i", "c", "e", "?">>
M_what == <<"w", "h", "a", "t">>
M_hi == <<"h", "i">>
Messages == {M_Price, M_what, M_hi}

\* The formData of chat requests: absent, or one of three forms of which two
\* differ in vehicleModel only.
ChatForms ==
    {None, Some(Minimal(S_car)), Some([Minimal(S_car) EXCEPT !.vehicleModel = Some(T_padded)]),
     Some([Minimal(S_health) EXCEPT !.name = Some(T_padded)])}

InitChat ==
    /\ customers = <<>>
    /\ loop = IdleLoop
    /\ catalog = <<>>
    /\ sessions = <<>>
    /\ form = Minimal(S_car)
    /\ submitted = <<>>
    /\ call = [op |-> "none"]
    /\ resp = Response(0, "", None)

InitializeChat(sessionId, body) ==
    /\ LET r == initialize_chat(sessionId, body, sessions)
       IN  /\ sessions' = r.sessions
           /\ resp' = r.resp
    /\ call' = [op |-> "initialize_chat", sessionId |-> sessionId, formData |-> body]
    /\ UNCHANGED <<customers, catalog, form, submitted, loop>>

HandleChatMessage(sessionId, message, body) ==
    /\ sessionId \in DOMAIN sessions => Len(sessions[sessionId].history) < 2 * MaxTurns
    /\ LET r == handle_chat_message(sessionId, message, body, sessions)
       IN  /\ sessions' = r.sessions
           /\ resp' = r.resp
    /\ call' = [op |-> "handle_chat_message", sessionId |-> sessionId,
                message |-> message, formData |-> body]
    /\ UNCHANGED <<customers, catalog, form, submitted, loop>>

NextChat ==
    \/ \E sessionId \in SessionIds, body \in ChatForms : InitializeChat(sessionId, body)
    \/ \E sessionId \in SessionIds, message \in Messages, body \in ChatForms :
            HandleChatMessage(sessionId, message, body)

SpecChat == InitChat /\ [][NextChat]_vars

\* The step is a chat-message call whose body the request model accepted, so
\* that it reached the handler.
MessageCalled ==
    /\ call'.op = "handle_chat_message"
    /\ call'.formData # None
    /\ CustomerData_accepts(call'.formData[1])

MessageAnswered == call'.op = "handle_chat_message" /\ resp'.status_code = 200

\* C3 as stated: initialize leaves an empty history and every successful
\* chat-message call adds exactly one entry; so n calls after initialize
\* give length n, and the first call after initialize gives length 1.
C3_OneEntryPerExchange ==
    [][/\ (call'.op = "initialize_chat" /\ resp'.status_code = 200)
            => sessions'[call'.sessionId].history = <<>>
       /\ MessageAnswered
            => Len(sessions'[call'.sessionId].history) =
                    Len(sessions[call'.sessionId].history) + 1]_vars

\* C3 as amended: initialize leaves an empty history and every successful
\* chat-message call adds exactly two entries, a user entry holding the
\* call's message followed by an assistant entry holding the call's
\* response; so n calls after initialize give length 2n, in call order.
C3_TwoEntriesPerExchange ==
    [][/\ (call'.op = "initialize_chat" /\ resp'.status_code = 200)
            => sessions'[call'.sessionId].history = <<>>
       /\ MessageAnswered
            => /\ call'.sessionId \in DOMAIN sessions
               /\ sessions'[call'.sessionId].history =
                    sessions[call'.sessionId].history \o
                        <<[role |-> "user", content |-> call'.message],
                          [role |-> "assistant", content |-> resp'.body.message]>>]_vars

\* C3 witness: a session answered two chat-message calls since it was
\* initialized and its history holds four entries.
C3_Witness ==
    /\ call.op = "handle_chat_message"
    /\ resp.status_code = 200
    /\ Len(sessions[call.sessionId].history) = 4
    /\ sessions[call.sessionId].history[3].content = call.message
    /\ sessions[call.sessionId].history[1].content # call.message

\* C11: after initialize(sessionId, ctx), whatever the registry held, the
\* session for sessionId has context ctx and an empty history, and every
\* other session is exactly as it was.
C11_InitializeOverwrites ==
    [][(call'.op = "initialize_chat" /\ resp'.status_code = 200)
        => /\ DOMAIN sessions' = DOMAIN sessions \cup {call'.sessionId}
           /\ sessions'[call'.sessionId].context = CustomerData(call'.formData[1])
           /\ sessions'[call'.sessionId].history = <<>>
           /\ \A s \in DOMAIN sessions \ {call'.sessionId} : sessions'[s] = sessions[s]]_vars

\* C11 witness: an initialize has been answered for a session, which now has
\* an empty history, while another session holds a history of two exchanges.
C11_Witness ==
    /\ call.op = "initialize_chat"
    /\ resp.status_code = 200
    /\ sessions[call.sessionId].history = <<>>
    /\ \E s \in DOMAIN sessions \ {call.sessionId} : Len(sessions[s].history) = 4

\* C10: a chat-message call on an existing session is accepted with or
\* without formData; the fields a supplied formData carries are in the
\* session's context afterwards, and the reply is the responder's reply for
\* that context.
C10_FormDataMerged ==
    (call.op = "handle_chat_message" /\ call.sessionId \in DOMAIN sessions)
        => /\ resp.status_code = 200
           /\ call.formData # None =>
                /\ \A f \in AllFields :
                        call.formData[1][f] # None =>
                            sessions[call.sessionId].context[f] =
                                CustomerData(call.formData[1])[f]
                /\ resp.body.message =
                        generate_simple_response(call.message,
                                                 sessions[call.sessionId].context)

-----------------------------------------------------------------------------
(* The validator on its own *)

InitValidate ==
    /\ customers = <<>>
    /\ loop = IdleLoop
    /\ catalog = <<>>
    /\ sessions = <<>>
    /\ form \in Forms
    /\ submitted = <<>>
    /\ call = [op |-> "none"]
    /\ resp = NoExc

\* validate_customer_data applied to the CustomerData instance of the form;
\* a form the request model refuses never reaches it.
Validate ==
    /\ call.op = "none"
    /\ CustomerData_accepts(form)
    /\ resp' = validate_customer_data(CustomerData(form))
    /\ call' = [op |-> "validate_customer_data"]
    /\ UNCHANGED <<customers, catalog, sessions, form, submitted, loop>>

NextValidate == Validate

SpecValidate == InitValidate /\ [][NextValidate]_vars

ContactFields == {"name", "email", "phone", "zipCode"}
Blanks == {None, Some(<<>>), Some(T_space)}

\* C6: for every type token of a canonical category the validator accepts
\* the minimal well-formed record, and rejects each record obtained from it
\* by removing or blanking one required field.
C6_RequiredFieldsEnforced ==
    call.op = "validate_customer_data" =>
        \A t \in DOMAIN insurance_type_mapping :
            /\ form = Minimal(t) => resp.exc = "none"
            /\ \A f \in ContactFields \cup CategoryFields(insurance_type_mapping[t]),
                  v \in Blanks :
                    form = [Minimal(t) EXCEPT ![f] = v] => resp.exc # "none"

-----------------------------------------------------------------------------
(* The product query *)

Product(id, type, active, min, max, gender, premium) ==
    [product_id |-> id, product_type |-> type, is_active |-> active, min_age |-> min,
     max_age |-> max, target_gender |-> gender, premium_amount |-> premium]

\* Rows the insurance_products table may hold.
ProductPool ==
    {Product(1, S_health, 1, 18, 60, S_female, 300),
     Product(2, S_health, 1, 18, 80, S_all, 200),
     Product(3, S_health, 0, 18, 80, S_all, 100),
     Product(4, S_auto, 1, 18, 80, S_male, 200),
     Product(5, S_health, 1, 0, 17, S_male, 200)}

Catalogs ==
    UNION {{c \in [1..n -> ProductPool] : \A i, j \in 1..n : i # j => c[i] # c[j]} :
           n \in 0..MaxProducts}

\* The gender_mapping of get_insurance_products.
products_gender_mapping ==
    (S_Male :> S_male) @@ (S_Female :> S_female) @@ (S_male :> S_male) @@
    (S_female :> S_female) @@ (S_non_binary :> S_non_binary)

\* The rows the SELECT of get_insurance_products matches.  `if age:` and
\* `if gender:` add their conditions for truthy values only.  SQL `=` is
\* taken as exact equality.
matching_rows(product_type, age, gender, table) ==
    LET db_product_type == Get(insurance_type_mapping, product_type, product_type)
        db_gender == Get(products_gender_mapping, gender[1], Lower(gender[1]))
    IN  {i \in 1..Len(table) :
            /\ table[i].product_type = db_product_type
            /\ table[i].is_active = 1
            /\ (age # None /\ age[1] # 0)
                    => (table[i].min_age <= age[1] /\ table[i].max_age >= age[1])
            /\ Truthy(gender)
                    => (table[i].target_gender = db_gender \/ table[i].target_gender = S_all)}

\* ORDER BY premium_amount ASC: the orders of the matched rows a query may
\* return; rows of equal premium come in any order.
ordered_by_premium(rows, table) ==
    {r \in [1..Cardinality(rows) -> rows] :
        /\ \A i, j \in DOMAIN r : i # j => r[i] # r[j]
        /\ \A i, j \in DOMAIN r : i < j =>
                table[r[i]].premium_amount <= table[r[j]].premium_amount}

\* DatabaseService.get_insurance_products: the lists it may return; a failure
\* to connect is caught and the empty list returned.
DatabaseService_get_insurance_products(product_type, age, gender, dbUp, table) ==
    IF get_connection(dbUp).exc # "none" THEN {<<>>}
    ELSE {[i \in DOMAIN r |-> table[r[i]]] :
            r \in ordered_by_premium(matching_rows(product_type, age, gender, table), table)}

ProductTypes == {S_car, S_health, T_pet}
Ages == {None, Some(0), Some(17), Some(30), Some(70)}
Genders == {None, Some(<<>>), Some(S_Female), Some(S_female), Some(S_male), Some(T_Other)}

InitProducts ==
    /\ customers = <<>>
    /\ loop = IdleLoop
    /\ catalog \in Catalogs
    /\ sessions = <<>>
    /\ form = Minimal(S_car)
    /\ submitted = <<>>
    /\ call = [op |-> "none"]
    /\ resp = Response(0, "", None)

\* POST /api/database/products
GetInsuranceProducts(productType, age, gender, dbUp) ==
    /\ \E products \in
            DatabaseService_get_insurance_products(productType, age, gender, dbUp, catalog) :
            resp' = Response(200, "", [success |-> TRUE, data |-> products])
    /\ call' = [op |-> "get_insurance_products", productType |-> productType, age |-> age,
                gender |-> gender, dbUp |-> dbUp]
    /\ UNCHANGED <<customers, catalog, sessions, form, submitted, loop>>

NextProducts ==
    \E productType \in ProductTypes, age \in Ages, gender \in Genders, dbUp \in BOOLEAN :
        GetInsuranceProducts(productType, age, gender, dbUp)

SpecProducts == InitProducts /\ [][NextProducts]_vars

\* C7: with the database reachable, and for a gender that is absent or one
\* of the stored gender values, the query returns exactly the active
\* products of the resolved type whose age range contains the supplied age
\* (0 included) and whose targetGender is the supplied gender or 'all',
\* ordered ascending by premiumAmount.
C7_ExactlyEligibleProducts ==
    (/\ call.op = "get_insurance_products"
     /\ call.dbUp
     /\ call.gender \in {None, Some(S_male), Some(S_female)})
        => LET data == resp.body.data
               type == Resolved(call.productType)
               eligible ==
                   {i \in 1..Len(catalog) :
                       /\ catalog[i].is_active = 1
                       /\ catalog[i].product_type = type
                       /\ call.age # None =>
                            (catalog[i].min_age <= call.age[1]
                                /\ call.age[1] <= catalog[i].max_age)
                       /\ call.gender # None =>
                            catalog[i].target_gender \in {call.gender[1], S_all}}
           IN  /\ {data[k] : k \in 1..Len(data)} = {catalog[i] : i \in eligible}
               /\ Len(data) = Cardinality(eligible)
               /\ \A j, k \in 1..Len(data) :
                    j < k => data[j].premium_amount <= data[k].premium_amount

-----------------------------------------------------------------------------
(* The responder on its own *)

W_premium == <<"p", "r", "e", "m", "i", "u", "m">>
W_benefit == <<"b", "e", "n", "e", "f", "i", "t">>
W_claim == <<"c", "l", "a", "i", "m">>
W_accident == <<"a", "c", "c", "i", "d", "e", "n", "t">>
W_damage == <<"d", "a", "m", "a", "g", "e">>
W_compare == <<"c", "o", "m", "p", "a", "r", "e">>
W_explain == <<"e", "x", "p", "l", "a", "i", "n">>

CodeKeywords ==
    {K_quote, K_price, K_cost, K_rate, K_coverage, K_protection, K_what, K_benefits,
     K_amount, K_how_much, K_returns, K_growth, K_interest, K_flexible, K_change,
     K_increase, K_thank, K_thanks, K_appreciate, K_help, K_confused, K_understand}

OtherKeywords == {W_premium, W_benefit, W_claim, W_accident, W_damage, W_compare, W_explain}

\* The words that are combined in pairs.
PairedKeywords ==
    {K_price, K_rate, K_coverage, K_what, K_benefits, K_amount, K_returns, K_flexible,
     K_thanks, K_help, W_premium, W_claim, W_compare, W_explain}

\* The messages: one keyword, two keywords, a mixed-case one, one without
\* any keyword.
RespondMessages ==
    CodeKeywords \cup OtherKeywords \cup {M_Price, M_hi}
        \cup {a \o <<" ">> \o b : a, b \in PairedKeywords}

\* The contexts: a minimal well-formed form per type token, and the same
\* with one of four fields replaced.
RespondForms ==
    {Minimal(t) : t \in TypeTokens} \cup
    {[Minimal(t) EXCEPT ![f] = Some(v)] :
        t \in TypeTokens, f \in {"name", "vehicleModel", "zipCode", "age"},
        v \in {T_padded, T_model, T_age}}

InitRespond ==
    /\ customers = <<>>
    /\ loop = IdleLoop
    /\ catalog = <<>>
    /\ sessions = <<>>
    /\ form \in RespondForms
    /\ submitted = <<>>
    /\ call \in {[op |-> "none", message |-> m] : m \in RespondMessages}
    /\ resp = Reply("", <<>>, None, <<>>)

\* generate_simple_response applied to the message and the context.
Respond ==
    /\ call.op = "none"
    /\ resp' = generate_simple_response(call.message, CustomerData(form))
    /\ call' = [op |-> "generate_simple_response", message |-> call.message]
    /\ UNCHANGED <<customers, catalog, sessions, form, submitted, loop>>

NextRespond == Respond

SpecRespond == InitRespond /\ [][NextRespond]_vars

Responded == call.op = "generate_simple_response"
RespondType == Resolved(form.insuranceType[1])
Mentions(words) == \E w \in words : Contains(Lower(call.message), w)

TypeName(type) ==
    CASE type = S_auto -> "auto" [] type = S_health -> "health"
      [] type = S_term_life -> "term_life" [] type = S_savings -> "savings"
      [] type = S_home -> "home" [] OTHER -> "other"

\* C18 as stated: the reply is a function of the message, the insurance
\* type and the name: contexts that agree on these get the same reply.
C18_FunctionOfThree ==
    Responded =>
        \A other \in RespondForms :
            (other.insuranceType = form.insuranceType /\ other.name = form.name)
                => generate_simple_response(call.message, CustomerData(other)) = resp

\* C18 as amended: the reply is a function of the message, the insurance
\* type, the name and the vehicle model: contexts that agree on these get
\* the same reply, whatever their other fields; the call leaves the
\* sessions and the customers as they were.
C18_FunctionOfFour ==
    Responded =>
        /\ \A other \in RespondForms :
                (/\ other.insuranceType = form.insuranceType
                 /\ other.name = form.name
                 /\ other.vehicleModel = form.vehicleModel)
                    => generate_simple_response(call.message, CustomerData(other)) = resp
        /\ sessions = <<>> /\ customers = <<>>

\* C18 witness: a quote reply for a health context, and another context of
\* the same type, name and vehicle model with another age.
C18_Witness ==
    /\ Responded
    /\ resp.template = "health_quote"
    /\ \E other \in RespondForms :
            /\ other.insuranceType = form.insuranceType
            /\ other.name = form.name
            /\ other.vehicleModel = form.vehicleModel
            /\ other.age # form.age

\* C12 as stated: for a canonical type the reply is chosen by the order
\* quote/price/cost/premium/rate, coverage/protection/benefit,
\* claim/accident/damage, compare, help/explain, default; any quote keyword
\* gets the type's quote template.
C12_PriorityAsStated ==
    (Responded /\ RespondType \in CanonicalTypes) =>
        LET quote == Mentions({K_quote, K_price, K_cost, W_premium, K_rate})
            coverage == Mentions({K_coverage, K_protection, W_benefit})
            claim == Mentions({W_claim, W_accident, W_damage})
            compare == Mentions({W_compare})
            help == Mentions({K_help, W_explain})
        IN  resp.template =
                IF quote THEN TypeName(RespondType) \o "_quote"
                ELSE IF coverage THEN TypeName(RespondType) \o "_coverage"
                ELSE IF claim THEN "claim"
                ELSE IF compare THEN "compare"
                ELSE IF help THEN "help"
                ELSE "default"

\* The keyword table of the responder: per type the two type-specific
\* categories, then the two general ones, in priority order.
QuoteWords == {K_quote, K_price, K_cost, K_rate}
GeneralRules ==
    <<[words |-> {K_thank, K_thanks, K_appreciate}, template |-> "thanks"],
      [words |-> {K_help, K_confused, K_understand}, template |-> "help"]>>

TypeRules(type) ==
    CASE type = S_auto ->
            <<[words |-> QuoteWords, template |-> "auto_quote"],
              [words |-> {K_coverage, K_protection, K_what}, template |-> "auto_coverage"]>>
      [] type = S_health ->
            <<[words |-> QuoteWords, template |-> "health_quote"],
              [words |-> {K_coverage, K_benefits, K_what}, template |-> "health_coverage"]>>
      [] type = S_term_life ->
            <<[words |-> QuoteWords, template |-> "term_life_quote"],
              [words |-> {K_coverage, K_amount, K_how_much},
               template |-> "term_life_coverage"]>>
      [] type = S_savings ->
            <<[words |-> {K_returns, K_growth, K_interest}, template |-> "savings_returns"],
              [words |-> {K_flexible, K_change, K_increase},
               template |-> "savings_flexible"]>>
      [] type = S_home ->
            <<[words |-> QuoteWords, template |-> "home_quote"],
              [words |-> {K_coverage, K_protection, K_what}, template |-> "home_coverage"]>>
      [] OTHER -> <<>>

\* C12 as amended: the reply is that of the first category, in the order of
\* the type's table followed by thanks and help, of which the lower-cased
\* message contains a keyword; the default reply when there is none.
C12_PriorityOfTable ==
    Responded =>
        LET rules == TypeRules(RespondType) \o GeneralRules
            hits == {i \in 1..Len(rules) : Mentions(rules[i].words)}
        IN  resp.template =
                IF hits = {} THEN "default"
                ELSE rules[CHOOSE i \in hits : \A j \in hits : i <= j].template

\* C12 witness: a message with a keyword of the second category and one of
\* the first has got the first category's reply.
C12_Witness ==
    /\ Responded
    /\ RespondType = S_health
    /\ Mentions({K_benefits}) /\ Mentions({K_rate})
    /\ resp.template = "health_quote"

-----------------------------------------------------------------------------
(* The store out of reach, the type aliases, the vehicle year, the stored age *)

\* C13: when the database cannot be reached, the product query, the customer
\* store and the customer fetch each answer with a 500-class failure and
\* none answers with success.
C13_UnreachableStoreIs500 ==
    (/\ call.op \in {"get_insurance_products", "store_customer", "get_customer"}
     /\ ~call.dbUp
     /\ call.op = "store_customer"
            => StoreCalled /\ validate_customer_data(StoreArg).exc = "none")
        => resp.status_code \in 500..599

\* C14: the insurance type is resolved through the alias table without
\* regard to case: a stored row whose submitted type is an alias in any
\* case carries the canonical type of that alias.
C14_TypeResolvedIgnoringCase ==
    \A i \in 1..Len(customers) :
        LET token == Lower(submitted[i].insuranceType[1])
        IN  token \in DOMAIN insurance_type_mapping
                => customers[i].insurance_type = Some(insurance_type_mapping[token])

\* C16: for an auto submission whose vehicleYear is empty, whitespace or no
\* integer the validator raises its validation failure, and the request
\* gets that 400 and reaches no storage.
C16_VehicleYearValidated ==
    (StoreCalled /\ call.dbUp
        /\ Resolved(StoreArg.insuranceType) = S_auto
        /\ (\/ StoreArg.vehicleYear = None
            \/ Strip(StoreArg.vehicleYear[1]) = <<>>
            \/ ParseInt(StoreArg.vehicleYear[1]) = None))
        => /\ validate_customer_data(StoreArg).exc = "HTTPException"
           /\ validate_customer_data(StoreArg).status_code = 400

\* C17: every stored row of type health, term_life, savings or home has an
\* age, and that age is between 18 and 80.
C17_StoredAgeInRange ==
    \A i \in 1..Len(customers) :
        customers[i].insurance_type[1] \in {S_health, S_term_life, S_savings, S_home}
            => /\ customers[i].age # None
               /\ customers[i].age[1] >= 18
               /\ customers[i].age[1] <= 80

-----------------------------------------------------------------------------
(* The order of the checks on a submission *)

RuleFields ==
    {"name", "email", "phone", "zipCode", "insuranceType", "vehicleNumber", "vehicleModel",
     "vehicleYear", "age", "lifeAge", "gender", "coverageAmount", "relationship",
     "monthlyInvestment", "investmentGoal"}

\* The forms with up to two fields replaced.
TwoForms ==
    UNION {{[Minimal(t) EXCEPT ![f] = v, ![g] = w] :
                v \in FieldValues(f), w \in FieldValues(g)} :
           t \in TypeTokens, f \in RuleFields, g \in RuleFields}

InitCheck ==
    /\ customers = <<>>
    /\ loop = IdleLoop
    /\ catalog = <<>>
    /\ sessions = <<>>
    /\ form \in TwoForms
    /\ submitted = <<>>
    /\ call = [op |-> "none"]
    /\ resp = NoExc

\* The checks a submitted JSON object goes through before any storage: the
\* request model, which refuses with 422, then validate_customer_data.
CheckCustomer ==
    /\ call.op = "none"
    /\ resp' = IF CustomerData_accepts(form)
               THEN validate_customer_data(CustomerData(form))
               ELSE HTTPException(422, "validation error")
    /\ call' = [op |-> "check_customer"]
    /\ UNCHANGED <<customers, catalog, sessions, form, submitted, loop>>

NextCheck == CheckCustomer

SpecCheck == InitCheck /\ [][NextCheck]_vars

Checked == call.op = "check_customer"
Rule(violated, failure) == [violated |-> violated, failure |-> failure]
Absent(o) == o = None \/ o[1] = <<>>
IsBlank(o) == o = None \/ Strip(o[1]) = <<>>
FormType == IF form.insuranceType = None THEN <<>> ELSE Resolved(form.insuranceType[1])
FormAge == IF ~Absent(form.lifeAge) THEN form.lifeAge
           ELSE IF ~Absent(form.savingsAge) THEN form.savingsAge ELSE form.age
FormGender == IF ~Absent(form.lifeGender) THEN form.lifeGender
              ELSE IF ~Absent(form.savingsGender) THEN form.savingsGender ELSE form.gender

\* The request model: a required field is absent...
PresenceRule ==
    Rule(\E f \in RequiredFields : form[f] = None, HTTPException(422, "validation error"))

\* ... or the email is no address.
EmailRule ==
    Rule(form.email # None /\ ~EmailStr(form.email[1]),
         HTTPException(422, "validation error"))

ContactRules ==
    <<Rule(IsBlank(form.name), HTTPException(400, "Name is required")),
      Rule(IsBlank(form.email), HTTPException(400, "Email is required")),
      Rule(IsBlank(form.phone), HTTPException(400, "Phone is required")),
      Rule(IsBlank(form.zipCode), HTTPException(400, "ZIP code is required")),
      Rule(Absent(form.insuranceType), HTTPException(400, "Insurance type is required"))>>

PhoneRule ==
    Rule(form.phone # None /\ Len(form.phone[1]) < 10,
         HTTPException(400, "Phone number must be at least 10 digits"))

AutoRules ==
    <<Rule(IsBlank(form.vehicleNumber),
           HTTPException(400, "Vehicle number is required for auto insurance")),
      Rule(IsBlank(form.vehicleModel),
           HTTPException(400, "Vehicle model is required for auto insurance")),
      Rule(Absent(form.vehicleYear),
           HTTPException(400, "Vehicle year is required for auto insurance"))>>

\* Age: digits only and between 18 and 80; a digit that is no decimal one
\* fails in int().
AgeGenderRules ==
    <<Rule(Absent(FormAge) \/ \E i \in 1..Len(FormAge[1]) :
                FormAge[1][i] \notin AsciiDigits \cup SuperscriptDigits,
           HTTPException(400, "Valid age between 18 and 80 is required")),
      Rule(~Absent(FormAge) /\ \E i \in 1..Len(FormAge[1]) :
                FormAge[1][i] \in SuperscriptDigits,
           ValueError),
      Rule(~Absent(FormAge) /\ ParseInt(FormAge[1]) # None
                /\ (ParseInt(FormAge[1])[1] < 18 \/ ParseInt(FormAge[1])[1] > 80),
           HTTPException(400, "Valid age between 18 and 80 is required")),
      Rule(Absent(FormGender), HTTPException(400, "Gender is required"))>>

TermLifeRules ==
    <<Rule(IsBlank(form.coverageAmount),
           HTTPException(400, "Coverage amount is required for term life insurance")),
      Rule(Absent(form.relationship),
           HTTPException(400, "Relationship is required for term life insurance"))>>

SavingsRules ==
    <<Rule(IsBlank(form.monthlyInvestment),
           HTTPException(400, "Monthly investment is required for savings plans")),
      Rule(IsBlank(form.investmentGoal),
           HTTPException(400, "Investment goal is required for savings plans"))>>

CategoryRules ==
    CASE FormType = S_auto -> AutoRules
      [] FormType \in {S_health, S_home} -> AgeGenderRules
      [] FormType = S_term_life -> AgeGenderRules \o TermLifeRules
      [] FormType = S_savings -> AgeGenderRules \o SavingsRules
      [] OTHER -> <<>>

\* The failure of the first violated rule of a list, none when no rule is
\* violated.
FirstFailure(rules) ==
    LET hits == {i \in 1..Len(rules) : rules[i].violated}
    IN  IF hits = {} THEN NoExc
        ELSE rules[CHOOSE i \in hits : \A j \in hits : i <= j].failure

\* C15 as stated: of several violated rules the one reported is the first
\* in the order contact fields non-empty, phone length, email syntax, auto
\* fields, age and gender, term-life fields, savings fields.
C15_OrderAsStated ==
    (Checked /\ \A f \in RequiredFields : form[f] # None)
        => resp = FirstFailure(ContactRules \o <<PhoneRule, EmailRule>> \o CategoryRules)

\* C15 as amended: the request model comes first (required fields present,
\* email an address), then the contact fields and the type, the phone
\* length, and the rules of the category; the first violated rule in that
\* order gives the one failure.
C15_OrderOfChecks ==
    Checked
        => resp = FirstFailure(<<PresenceRule, EmailRule>> \o ContactRules
                                    \o <<PhoneRule>> \o CategoryRules)

\* C15 witness: a blank name and a short phone together, the name reported.
C15_Witness ==
    /\ Checked
    /\ form.name = Some(T_space)
    /\ form.phone = Some(T_phoneShort)
    /\ resp = HTTPException(400, "Name is required")

-----------------------------------------------------------------------------
(* Chat requests in flight on the event loop *)

\* Both chat handlers are coroutines of one event loop: a request that has
\* been received waits as a task, the loop runs one task at a time, and a
\* running task keeps the loop until it awaits or returns.  A dict is an
\* object: loop.heap holds the session dicts by identity, loop.bound is the
\* dict sessions as sessionId -> identity, and the variable sessions is the
\* registry read through it.

\* The requests in flight are on one session.
LoopSessionIds == {"s1"}
LoopMessages == {M_hi, M_Price}
LoopForms ==
    {Some(Minimal(S_car)), Some([Minimal(S_health) EXCEPT !.name = Some(T_padded)])}

\* Whether the handler awaits before the statement at pc: neither
\* initialize_chat nor handle_chat_message contains an await.
Awaits_before_response(op, pc) == op = "handle_chat_message" /\ pc = "respond"

Awaits(op, pc) == FALSE

Registry(bound, heap) == [id \in DOMAIN bound |-> heap[bound[id]]]

\* The dict objects still referred to.
Live(requests, bound) ==
    ({bound[id] : id \in DOMAIN bound} \cup {requests[r].session : r \in DOMAIN requests})
        \ {0}

NewObject(heap) ==
    CHOOSE n \in 1..(Cardinality(DOMAIN heap) + 1) :
        /\ n \notin DOMAIN heap
        /\ \A m \in 1..(n - 1) : m \in DOMAIN heap

InitLoop ==
    /\ customers = <<>>
    /\ loop = IdleLoop
    /\ catalog = <<>>
    /\ sessions = <<>>
    /\ form = Minimal(S_car)
    /\ submitted = <<>>
    /\ call = [op |-> "none"]
    /\ resp = Response(0, "", None)

\* The state after a statement of the request in slot rid, which goes on at
\* pc with the given locals.
Continue(rid, request, bound, heap) ==
    LET requests == [loop.requests EXCEPT ![rid] = request]
        live == Live(requests, bound)
    IN  /\ loop' = [running |-> IF Awaits(request.op, request.pc) THEN 0 ELSE rid,
                    requests |-> requests,
                    bound |-> bound,
                    heap |-> IF live = {} THEN <<>> ELSE [o \in live |-> heap[o]]]
        /\ sessions' = Registry(bound, heap)
        /\ UNCHANGED <<customers, catalog, form, submitted, call, resp>>

\* The state after the request in slot rid has returned or raised.
Return(rid, response, bound, heap) ==
    LET request == loop.requests[rid]
        requests == [loop.requests EXCEPT ![rid] = IdleRequest]
        live == Live(requests, bound)
    IN  /\ loop' = [running |-> 0,
                    requests |-> requests,
                    bound |-> bound,
                    heap |-> IF live = {} THEN <<>> ELSE [o \in live |-> heap[o]]]
        /\ sessions' = Registry(bound, heap)
        /\ resp' = response
        /\ call' = IF request.op = "initialize_chat"
                   THEN [op |-> "initialize_chat", sessionId |-> request.sessionId,
                         formData |-> request.formData]
                   ELSE [op |-> "handle_chat_message", sessionId |-> request.sessionId,
                         message |-> request.message, formData |-> request.formData]
        /\ UNCHANGED <<customers, catalog, form, submitted>>

Running(rid, op, pc) ==
    /\ loop.running = rid
    /\ loop.requests[rid].op = op
    /\ loop.requests[rid].pc = pc

\* A request whose body the request model accepts arrives and becomes a task.
Receive(rid, op, sessionId, message, body) ==
    /\ loop.requests[rid].pc = "idle"
    /\ (op = "handle_chat_message" /\ sessionId \in DOMAIN sessions)
            => Len(sessions[sessionId].history) < 2 * MaxTurns
    /\ loop' = [loop EXCEPT !.requests[rid] =
                    [IdleRequest EXCEPT !.op = op, !.sessionId = sessionId,
                                        !.message = message, !.formData = body,
                                        !.pc = "start"]]
    /\ UNCHANGED <<customers, catalog, sessions, form, submitted, call, resp>>

\* The loop, with no task running, runs a waiting one.
Dispatch(rid) ==
    /\ loop.running = 0
    /\ loop.requests[rid].pc # "idle"
    /\ loop' = [loop EXCEPT !.running = rid]
    /\ UNCHANGED <<customers, catalog, sessions, form, submitted, call, resp>>

\* sessions[request.sessionId] = {...}
InitializeStore(rid) ==
    /\ Running(rid, "initialize_chat", "start")
    /\ LET request == loop.requests[rid]
           formData == CustomerData(request.formData[1])
           entry == [formData |-> formData, history |-> <<>>, context |-> formData]
           new == NewObject(loop.heap)
       IN  Continue(rid, [request EXCEPT !.pc = "initial_message"],
                    (request.sessionId :> new) @@ loop.bound,
                    (new :> entry) @@ loop.heap)

\* initial_message = ...; return {...}
InitializeReturn(rid) ==
    /\ Running(rid, "initialize_chat", "initial_message")
    /\ LET request == loop.requests[rid]
       IN  Return(rid,
                  Response(200, "",
                           [success |-> TRUE,
                            message |-> initial_message(CustomerData(request.formData[1])),
                            sessionId |-> request.sessionId]),
                  loop.bound, loop.heap)

\* session = sessions.get(request.sessionId); if not session: raise 404
MessageGet(rid) ==
    /\ Running(rid, "handle_chat_message", "start")
    /\ LET request == loop.requests[rid]
       IN  IF request.sessionId \notin DOMAIN loop.bound
           THEN Return(rid, Response(404, "Session not found", None), loop.bound, loop.heap)
           ELSE Continue(rid,
                         [request EXCEPT !.session = loop.bound[request.sessionId],
                                         !.pc = "append_user"],
                         loop.bound, loop.heap)

\* session['history'].append({"role": "user", ...})
MessageAppendUser(rid) ==
    /\ Running(rid, "handle_chat_message", "append_user")
    /\ LET request == loop.requests[rid]
       IN  Continue(rid, [request EXCEPT !.pc = "respond"], loop.bound,
                    [loop.heap EXCEPT ![request.session].history =
                        Append(@, [role |-> "user", content |-> request.message])])

\* response = generate_simple_response(...);
\* session['history'].append({"role": "assistant", ...})
MessageRespond(rid) ==
    /\ Running(rid, "handle_chat_message", "respond")
    /\ LET request == loop.requests[rid]
           response ==
                generate_simple_response(request.message, loop.heap[request.session].context)
       IN  Continue(rid, [request EXCEPT !.response = response, !.pc = "store"], loop.bound,
                    [loop.heap EXCEPT ![request.session].history =
                        Append(@, [role |-> "assistant", content |-> response])])

\* sessions[request.sessionId] = session; return {...}
MessageStore(rid) ==
    /\ Running(rid, "handle_chat_message", "store")
    /\ LET request == loop.requests[rid]
       IN  Return(rid,
                  Response(200, "", [success |-> TRUE, message |-> request.response]),
                  (request.sessionId :> request.session) @@ loop.bound, loop.heap)

NextLoop ==
    \/ \E rid \in 1..MaxInflight, sessionId \in LoopSessionIds, body \in LoopForms :
            Receive(rid, "initialize_chat", sessionId, <<>>, body)
    \/ \E rid \in 1..MaxInflight, sessionId \in LoopSessionIds, message \in LoopMessages,
          body \in LoopForms :
            Receive(rid, "handle_chat_message", sessionId, message, body)
    \/ \E rid \in 1..MaxInflight : Dispatch(rid)
    \/ \E rid \in 1..MaxInflight : InitializeStore(rid)
    \/ \E rid \in 1..MaxInflight : InitializeReturn(rid)
    \/ \E rid \in 1..MaxInflight : MessageGet(rid)
    \/ \E rid \in 1..MaxInflight : MessageAppendUser(rid)
    \/ \E rid \in 1..MaxInflight : MessageRespond(rid)
    \/ \E rid \in 1..MaxInflight : MessageStore(rid)

SpecLoop == InitLoop /\ [][NextLoop]_vars

\* The history of a session is user entries each followed by the reply to
\* it; a last user entry without its reply belongs to the running request,
\* which is about to append the reply.
Paired(session, l) ==
    LET history == session.history
    IN  \A i \in 1..Len(history) :
            i % 2 = 1 =>
                /\ history[i].role = "user"
                /\ i < Len(history) =>
                        history[i + 1] =
                            [role |-> "assistant",
                             content |-> generate_simple_response(history[i].content,
                                                                  session.context)]
                /\ i = Len(history) =>
                        \E rid \in 1..MaxInflight :
                            /\ l.running = rid
                            /\ l.requests[rid].pc = "respond"
                            /\ l.requests[rid].message = history[i].content
                            /\ l.heap[l.requests[rid].session] = session

IsPrefix(s, t) == Len(s) <= Len(t) /\ SubSeq(t, 1, Len(s)) = s

\* C19: with chat-message and chat-initialize requests in flight on the same
\* session, in any order of arrival and dispatch, every history stays
\* paired; an answered message request leaves its user entry and the reply
\* it returned as the last two entries; and a history only grows, except
\* when an initialize request on its session replaces it.
C19_MessageRunsAtomically ==
    [][/\ \A id \in DOMAIN sessions' : Paired(sessions'[id], loop')
       /\ \A rid \in 1..MaxInflight :
            (Running(rid, "handle_chat_message", "store") /\ loop'.requests[rid].pc = "idle")
                => LET history == sessions'[call'.sessionId].history
                   IN  /\ Len(history) >= 2
                       /\ SubSeq(history, Len(history) - 1, Len(history)) =
                            <<[role |-> "user", content |-> call'.message],
                              [role |-> "assistant", content |-> resp'.body.message]>>
       /\ \A id \in DOMAIN sessions :
            \/ id \in DOMAIN sessions'
                    /\ IsPrefix(sessions[id].history, sessions'[id].history)
            \/ \E rid \in 1..MaxInflight :
                    /\ Running(rid, "initialize_chat", "start")
                    /\ loop.requests[rid].sessionId = id]_vars

\* C19 witness: a message request is between its two appends while an
\* initialize request and so a second request on the same session waits,
\* the session holding an earlier exchange.
C19_Witness ==
    \E rid, other \in 1..MaxInflight :
        /\ Running(rid, "handle_chat_message", "respond")
        /\ loop.requests[other].op = "initialize_chat"
        /\ loop.requests[other].pc = "start"
        /\ loop.requests[other].sessionId = loop.requests[rid].sessionId
        /\ Len(sessions[loop.requests[rid].sessionId].history) = 3

=============================================================================
